---- MODULE Spec2Model ----
(***************************************************************************)
(* State-machine model of the SPARK particle engine core: Emitter, Box and *)
(* Point zones, the Obstacle modifier and the System step-mode logic.      *)
(*                                                                         *)
(* Floats are modelled as exact rationals <<n, d>> (d > 0, reduced), so    *)
(* every property below is about the arithmetic the code performs, free of *)
(* rounding.  A Vector3D is a triple of rationals.                         *)
(***************************************************************************)
EXTENDS Integers, Sequences, FiniteSets, TLC

VARIABLES
    \* ---- Zone (one zone object, a Box or a Point) ----
    zoneKind,       \* dynamic type of the zone: "Box" or "Point"
    position,       \* Zone::position (local)
    tPosition,      \* Zone::getTransformedPosition()
    world,          \* Transformable: the world rotation in force
    dimension,      \* Box::dimension
    axis,           \* Box::axis[3]
    tAxis,          \* Box::tAxis[3]
    zoneOp,         \* history: the last zone operation, its arguments and result
    probe,          \* the moving sphere a zone test is called for: v0, v1, radius
    \* ---- Emitter (one emitter object) ----
    zone,           \* Emitter::zone, a zone identifier
    full,           \* Emitter::full
    tank,           \* Emitter::tank
    flow,           \* Emitter::flow
    forceMin,       \* Emitter::forceMin
    forceMax,       \* Emitter::forceMax
    aborted,        \* an SPK_ASSERT of the emitter has failed
    cfgFull,        \* history: the full flag last configured by the caller
    lastCall,       \* history: the last emitter operation and its arguments
    emitted,        \* history: the generatePosition call made by the last emit
    \* ---- Obstacle (one obstacle over the zone above, and its group) ----
    bouncingRatio,  \* Obstacle::bouncingRatio
    friction,       \* Obstacle::friction
    particles,      \* the group: a sequence of [position, oldPosition, velocity]
    passes,         \* number of modify passes run so far
    obsOp,          \* history: the last modify pass
    \* ---- System ----
    stepMode,           \* static System::stepMode
    constantStep,       \* static System::constantStep
    minStep,            \* static System::minStep
    maxStep,            \* static System::maxStep
    clampStepEnabled,   \* static System::clampStepEnabled
    clampStep,          \* static System::clampStep
    deltaStep,          \* System::deltaStep, the time left over by the last update
    reqStep,            \* history: the arguments last passed to useConstantStep
    reqMin,             \*   and to useAdaptiveStep
    reqMax,
    base,               \* history: deltaStep when the step mode was last configured
    totalPassed,        \* history: sum of the deltas passed to update since then
    totalUsed,          \* history: sum of these deltas after clamping
    nbSteps,            \* history: number of sub-steps performed since then
    sysOp               \* history: the last System operation

emitterVars == <<zone, full, tank, flow, forceMin, forceMax, aborted,
                 cfgFull, lastCall, emitted>>

zoneVars == <<zoneKind, position, tPosition, world, dimension, axis, tAxis, zoneOp>>

obstacleVars == <<bouncingRatio, friction, particles, passes, obsOp>>

systemVars == <<stepMode, constantStep, minStep, maxStep, clampStepEnabled, clampStep,
                deltaStep, reqStep, reqMin, reqMax, base, totalPassed, totalUsed,
                nbSteps, sysOp>>

probeVars == <<probe>>

vars == <<zoneVars, probeVars, emitterVars, obstacleVars, systemVars>>

\* what the operations of one object leave alone
nonZoneVars == <<probeVars, emitterVars, obstacleVars, systemVars>>
nonEmitterVars == <<zoneVars, probeVars, obstacleVars, systemVars>>
nonObstacleVars == <<zoneVars, probeVars, emitterVars, systemVars>>
nonSystemVars == <<zoneVars, probeVars, emitterVars, obstacleVars>>

-----------------------------------------------------------------------------
(* Bounds of the model *)

\* force arguments range over 0..MaxForce
MaxForce == 3
\* tank and flow arguments range over -1..MaxSupply
MaxSupply == 1
\* random fractions are the multiples of 1/RandDen in [0, 1]
RandDen == 2

\* a group holds NbParticles particles
NbParticles == 2
\* at most MaxPasses modify passes are run
MaxPasses == 2
\* the delta passed to one update ranges over 1..MaxDelta
MaxDelta == 5
\* updates are run while the deltas passed sum to at most MaxTotal
MaxTotal == 5

\* std::numeric_limits<float>::max(), above every ratio the model can form
MAX_FLOAT == 1000000

-----------------------------------------------------------------------------
(* Exact rational arithmetic standing for the code's float arithmetic *)

Abs(x) == IF x < 0 THEN -x ELSE x

RECURSIVE GCD(_, _)
GCD(a, b) == IF b = 0 THEN a ELSE GCD(b, a % b)

\* the rational n/d in canonical form
R(n, d) ==
    LET g == GCD(Abs(n), Abs(d))
        s == IF d < 0 THEN -1 ELSE 1
    IN  <<(s * n) \div g, (s * d) \div g>>

RInt(k) == <<k, 1>>
\* sums and comparisons go through the least common denominator
RAdd(a, b) ==
    LET g == GCD(a[2], b[2])
    IN  R(a[1] * (b[2] \div g) + b[1] * (a[2] \div g), (a[2] \div g) * b[2])
RSub(a, b) == RAdd(a, <<-b[1], b[2]>>)
RMul(a, b) == R(a[1] * b[1], a[2] * b[2])
RDiv(a, b) == R(a[1] * b[2], a[2] * b[1])
RNeg(a) == <<-a[1], a[2]>>
RAbs(a) == <<Abs(a[1]), a[2]>>
RLt(a, b) ==
    LET g == GCD(a[2], b[2])
    IN  a[1] * (b[2] \div g) < b[1] * (a[2] \div g)
RLe(a, b) == ~RLt(b, a)
RGt(a, b) == RLt(b, a)
RMax(a, b) == IF RLt(a, b) THEN b ELSE a

\* square root of a perfect square
ISqrt(n) == CHOOSE r \in 0..n : r * r = n
RSqrt(a) == <<ISqrt(a[1]), ISqrt(a[2])>>

-----------------------------------------------------------------------------
(* Vector3D *)

Vec(x, y, z) == <<RInt(x), RInt(y), RInt(z)>>
NullVec == Vec(0, 0, 0)

VAdd(u, v) == <<RAdd(u[1], v[1]), RAdd(u[2], v[2]), RAdd(u[3], v[3])>>
VSub(u, v) == <<RSub(u[1], v[1]), RSub(u[2], v[2]), RSub(u[3], v[3])>>
VSubScalar(u, f) == <<RSub(u[1], f), RSub(u[2], f), RSub(u[3], f)>>
VScale(v, f) == <<RMul(v[1], f), RMul(v[2], f), RMul(v[3], f)>>
revert(v) == <<RNeg(v[1]), RNeg(v[2]), RNeg(v[3])>>
VAbs(v) == <<RAbs(v[1]), RAbs(v[2]), RAbs(v[3])>>
setMax(u, v) == <<RMax(u[1], v[1]), RMax(u[2], v[2]), RMax(u[3], v[3])>>
isNull(v) == v = NullVec

dotProduct(u, v) ==
    RAdd(RAdd(RMul(u[1], v[1]), RMul(u[2], v[2])), RMul(u[3], v[3]))

crossProduct(u, v) ==
    << RSub(RMul(u[2], v[3]), RMul(u[3], v[2])),
       RSub(RMul(u[3], v[1]), RMul(u[1], v[3])),
       RSub(RMul(u[1], v[2]), RMul(u[2], v[1])) >>

getSqrNorm(v) == dotProduct(v, v)
getNorm(v) == RSqrt(getSqrNorm(v))

\* Vector3D::normalize: divides by the norm unless the norm is 0
normalize(v) ==
    LET norm == getNorm(v)
    IN  IF norm = RInt(0) THEN v
        ELSE <<RDiv(v[1], norm), RDiv(v[2], norm), RDiv(v[3], norm)>>

-----------------------------------------------------------------------------
(* Transformable: the world transform of a zone (rotations only) *)

Identity == <<Vec(1, 0, 0), Vec(0, 1, 0), Vec(0, 0, 1)>>
RotZ90 == <<Vec(0, -1, 0), Vec(1, 0, 0), Vec(0, 0, 1)>>
Worlds == {Identity, RotZ90}

\* Transformable::transformDir / transformPos: the vector in world space
transformDir(w, dir) == <<dotProduct(w[1], dir), dotProduct(w[2], dir), dotProduct(w[3], dir)>>
transformPos(w, pos) == transformDir(w, pos)

-----------------------------------------------------------------------------
(* SPKMain::generateRandom *)

\* generateRandom(min,max) = min + ((randomSeed - 1) / 2147483646.0) * (max - min).
\* The generator's state is abstracted: the fraction t is any k/RandDen.
RandFractions == {R(k, RandDen) : k \in 0..RandDen}
generateRandom(min, max, t) == VAdd(min, VScale(VSub(max, min), t))

-----------------------------------------------------------------------------
(* Box and Point zones *)

Positions == {Vec(0, 0, 0), Vec(2, 0, 0)}
Dimensions == {Vec(2, 0, 1), Vec(2, 1, -1), Vec(-1, -2, 0), Vec(0, 0, 0)}
\* <<front, up>> pairs: orthogonal, equal, null, parallel, opposite, oblique
AxisPairs == { <<Vec(0, 0, 1), Vec(0, 1, 0)>>, <<Vec(1, 0, 0), Vec(0, 0, 1)>>,
               <<Vec(0, 0, 1), Vec(0, 0, 1)>>, <<Vec(0, 0, 0), Vec(0, 1, 0)>>,
               <<Vec(0, 1, 0), Vec(0, 0, 0)>>, <<Vec(0, 0, 2), Vec(0, 0, 1)>>,
               <<Vec(0, 0, 1), Vec(0, 0, -1)>>, <<Vec(0, 0, 1), Vec(0, 3, 4)>>,
               <<Vec(0, 3, 4), Vec(1, 0, 0)>> }
\* attribute values an imported descriptor may carry
ImportDims == {Vec(-1, -2, 0)}
ImportFronts == {Vec(1, 0, 0)}
ImportUps == {Vec(0, 0, 1)}
\* points are taken relative to the zone's transformed position
Offsets == {Vec(0, 0, 0), Vec(3, 0, 0), Vec(0, -2, 0), Vec(0, 3, 4), Vec(2, -2, 1)}
Radii == {RInt(0), RInt(1)}
\* the unit vectors normalizeOrRandomize may fall back to
RandomUnits == {Vec(1, 0, 0), Vec(0, -1, 0)}

NoVec == NullVec
ZoneOp(o, a1, a2, fl, rad, res) ==
    [op |-> o, arg1 |-> a1, arg2 |-> a2, flag |-> fl, radius |-> rad, result |-> res]

\* Box::setDimension: the value stored in this->dimension
setDimensionResult_xOnly(d) ==
    IF RLt(d[1], RInt(0)) THEN VAbs(d) ELSE d
setDimensionResult(d) ==
    IF RLt(d[1], RInt(0)) \/ RLt(d[2], RInt(0)) \/ RLt(d[3], RInt(0))
    THEN VAbs(d) ELSE d

\* Box::setAxis, lines 60-76: the three local axes before the final loop
setAxisLocal(front, up) ==
    LET degenerate == front = up \/ isNull(front) \/ isNull(up)
        a2 == IF degenerate THEN Vec(0, 0, 1) ELSE normalize(front)
        a1 == IF degenerate THEN Vec(0, 1, 0) ELSE normalize(up)
        a0 == crossProduct(a2, a1)
    IN  <<a0, crossProduct(a0, a2), a2>>

\* the loop shared by Box::setAxis and Box::innerUpdateTransform:
\* transformDir(tAxis[i],axis[i]) first, axis[i].normalize() after it
transformAxes(w, ax) ==
    [tAxis |-> <<transformDir(w, ax[1]), transformDir(w, ax[2]), transformDir(w, ax[3])>>,
     axis |-> <<normalize(ax[1]), normalize(ax[2]), normalize(ax[3])>>]

\* Box::Box(position,dimension,front,up) / Point::Point(position)
ZoneCtor(kind, pos, dim, front, up) ==
    /\ zoneKind = kind
    /\ position = pos
    /\ tPosition = pos
    /\ world = Identity
    /\ IF kind = "Box"
         THEN /\ dimension = setDimensionResult(dim)
              /\ LET r == transformAxes(Identity, setAxisLocal(front, up))
                 IN  axis = r.axis /\ tAxis = r.tAxis
              /\ zoneOp = ZoneOp("Box", dim, front, FALSE, RInt(0), up)
         ELSE /\ dimension = NullVec
              /\ axis = Identity
              /\ tAxis = Identity
              /\ zoneOp = ZoneOp("Point", NoVec, NoVec, FALSE, RInt(0), NoVec)

InitZone ==
    \/ \E pos \in Positions, dim \in Dimensions, fu \in AxisPairs :
          ZoneCtor("Box", pos, dim, fu[1], fu[2])
    \/ \E pos \in Positions : ZoneCtor("Point", pos, NullVec, NullVec, NullVec)

setDimension(dim) ==
    /\ zoneKind = "Box"
    /\ dimension' = setDimensionResult(dim)
    /\ zoneOp' = ZoneOp("setDimension", dim, NoVec, FALSE, RInt(0), NoVec)
    /\ UNCHANGED <<zoneKind, position, tPosition, world, axis, tAxis>>
    /\ UNCHANGED nonZoneVars

setAxis(front, up) ==
    /\ zoneKind = "Box"
    /\ LET r == transformAxes(world, setAxisLocal(front, up))
       IN  axis' = r.axis /\ tAxis' = r.tAxis
    /\ zoneOp' = ZoneOp("setAxis", front, up, FALSE, RInt(0), NoVec)
    /\ UNCHANGED <<zoneKind, position, tPosition, world, dimension>>
    /\ UNCHANGED nonZoneVars

\* Box::innerImport: setDimension when the attribute has a value, then setAxis
\* with front/up defaulting to (0,0,1) and (0,1,0)
innerImport(hasDim, dim, hasFront, front, hasUp, up) ==
    LET f == IF hasFront THEN front ELSE Vec(0, 0, 1)
        u == IF hasUp THEN up ELSE Vec(0, 1, 0)
    IN  /\ zoneKind = "Box"
        /\ dimension' = (IF hasDim THEN setDimensionResult(dim) ELSE dimension)
        /\ LET r == transformAxes(world, setAxisLocal(f, u))
           IN  axis' = r.axis /\ tAxis' = r.tAxis
        /\ zoneOp' = ZoneOp("innerImport", dim, f, hasDim, RInt(0), u)
        /\ UNCHANGED <<zoneKind, position, tPosition, world>>
        /\ UNCHANGED nonZoneVars

\* Transformable::updateTransform with a new world transform, ending in
\* Zone::innerUpdateTransform and, for a Box, Box::innerUpdateTransform
updateTransform(w) ==
    /\ world' = w
    /\ tPosition' = transformPos(w, position)
    /\ IF zoneKind = "Box"
         THEN LET r == transformAxes(w, axis)
              IN  axis' = r.axis /\ tAxis' = r.tAxis
         ELSE UNCHANGED <<axis, tAxis>>
    /\ zoneOp' = ZoneOp("updateTransform", NoVec, NoVec, FALSE, RInt(0), NoVec)
    /\ UNCHANGED <<zoneKind, position, dimension>>
    /\ UNCHANGED nonZoneVars

\* Box::generateRandomDim: t is the fraction drawn for the vector, n the
\* integer drawn by SPK_RANDOM(0,6)
generateRandomDim_noOffset(fl, rad, t, n) ==
    LET relDimension == setMax(NullVec, VSubScalar(dimension, rad))
    IN  VScale(VSub(relDimension, revert(relDimension)), t)
generateRandomDim(fl, rad, t, n) ==
    IF fl
    THEN LET relDimension == setMax(NullVec, VSubScalar(dimension, rad))
         IN  generateRandom(revert(relDimension), relDimension, t)
    ELSE LET randomDim == generateRandom(revert(dimension), dimension, t)
             ax == (n \div 2) + 1             \* n >> 1, as a 1-based index
             dir == ((n % 2) * 2) - 1         \* ((n & 1) << 1) - 1
         IN  [randomDim EXCEPT ![ax] = RMul(RInt(dir), dimension[ax])]

\* Box::generatePosition / Point::generatePosition: the point written to v
BoxGeneratePosition(fl, rad, t, n) ==
    LET randomDim == generateRandomDim(fl, rad, t, n)
    IN  VAdd(VAdd(VAdd(tPosition, VScale(tAxis[1], randomDim[1])),
                  VScale(tAxis[2], randomDim[2])),
             VScale(tAxis[3], randomDim[3]))

generatePosition(fl, rad, t, n) ==
    /\ zoneOp' = ZoneOp("generatePosition", NoVec, NoVec, fl, rad,
                        IF zoneKind = "Box" THEN BoxGeneratePosition(fl, rad, t, n)
                        ELSE tPosition)
    /\ UNCHANGED <<zoneKind, position, tPosition, world, dimension, axis, tAxis>>
    /\ UNCHANGED nonZoneVars

\* Box::contains / Point::contains
BoxContains(v, rad) ==
    LET d == VSub(v, tPosition)
    IN  \A i \in 1..3 :
            ~RGt(RSub(RAbs(dotProduct(tAxis[i], d)), rad), dimension[i])

contains(v, rad) == IF zoneKind = "Box" THEN BoxContains(v, rad) ELSE FALSE

\* Box::computeNormal
BoxComputeNormal(v) ==
    LET d == VSub(v, tPosition)
        ratio == [i \in 1..3 |->
                    IF RGt(dimension[i], RInt(0))
                    THEN RDiv(dotProduct(tAxis[i], d), dimension[i])
                    ELSE RInt(MAX_FLOAT)]
        absRatio == [i \in 1..3 |-> RAbs(ratio[i])]
        i1 == IF RGt(absRatio[2], absRatio[1]) THEN 2 ELSE 1
        axisIndex == IF RGt(absRatio[3], absRatio[i1]) THEN 3 ELSE i1
    IN  IF RGt(ratio[axisIndex], RInt(0)) THEN revert(tAxis[axisIndex])
        ELSE tAxis[axisIndex]

\* normalizeOrRandomize: the normalized vector, or a random unit vector (u)
\* when the vector cannot be normalized
normalizeOrRandomize(v, u) == IF isNull(v) THEN u ELSE normalize(v)

\* Point::computeNormal
PointComputeNormal(v, u) == normalizeOrRandomize(VSub(v, tPosition), u)

ZoneComputeNormal(v, u) ==
    IF zoneKind = "Box" THEN BoxComputeNormal(v) ELSE PointComputeNormal(v, u)

computeNormal(v, u) ==
    /\ zoneOp' = ZoneOp("computeNormal", v, NoVec, FALSE, RInt(0), ZoneComputeNormal(v, u))
    /\ UNCHANGED <<zoneKind, position, tPosition, world, dimension, axis, tAxis>>
    /\ UNCHANGED nonZoneVars

NextZone ==
    \/ \E dim \in Dimensions : setDimension(dim)
    \/ \E fu \in AxisPairs : setAxis(fu[1], fu[2])
    \/ \E hasDim \in BOOLEAN, dim \in ImportDims, hasFront \in BOOLEAN,
          front \in ImportFronts, hasUp \in BOOLEAN, up \in ImportUps :
          innerImport(hasDim, dim, hasFront, front, hasUp, up)
    \/ \E w \in Worlds : updateTransform(w)
    \/ \E rad \in Radii, t \in RandFractions : generatePosition(TRUE, rad, t, 0)
    \/ \E t \in RandFractions, n \in 0..5 : generatePosition(FALSE, RInt(0), t, n)
    \/ \E o \in Offsets, u \in RandomUnits : computeNormal(VAdd(tPosition, o), u)

-----------------------------------------------------------------------------
(* Zone tests on a moving sphere: Box::contains and Box::intersects *)

\* end points of the segments tested, lying inside, on and outside the boxes
TestPoints == {Vec(0, 0, 0), Vec(1, 0, 0), Vec(3, 0, 0), Vec(4, 2, 2), Vec(0, -2, 0)}

Probe(v0, v1, radius) == [v0 |-> v0, v1 |-> v1, radius |-> radius]

\* the sphere the tests are called for: it went from v0 to v1
InitProbe == \E v0 \in TestPoints, v1 \in TestPoints, rad \in Radii : probe = Probe(v0, v1, rad)

\* no test is called
ProbeIdle == probe = Probe(NullVec, NullVec, RInt(0))

\* Box::intersectSlab: minRatio and normal are passed by reference, so the call
\* yields the returned flag and the two values it leaves in them
intersectSlab_notStrict(dist0, dist1, slab, ax, minRatio, normal) ==
    LET d0 == RSub(slab, dist0)
        d1 == RSub(slab, dist1)
    IN  IF RGt(d0, RInt(0)) # RGt(d1, RInt(0))
        THEN LET ratio == RDiv(d0, RSub(d0, d1))
             IN  IF RLe(ratio, minRatio)
                 THEN [hit |-> TRUE, minRatio |-> ratio, normal |-> ax]
                 ELSE [hit |-> FALSE, minRatio |-> minRatio, normal |-> normal]
        ELSE [hit |-> FALSE, minRatio |-> minRatio, normal |-> normal]
intersectSlab(dist0, dist1, slab, ax, minRatio, normal) ==
    LET d0 == RSub(slab, dist0)
        d1 == RSub(slab, dist1)
    IN  IF RGt(d0, RInt(0)) # RGt(d1, RInt(0))
        THEN LET ratio == RDiv(d0, RSub(d0, d1))
             IN  IF RLt(ratio, minRatio)
                 THEN [hit |-> TRUE, minRatio |-> ratio, normal |-> ax]
                 ELSE [hit |-> FALSE, minRatio |-> minRatio, normal |-> normal]
        ELSE [hit |-> FALSE, minRatio |-> minRatio, normal |-> normal]

\* the body of the loop of Box::intersects for axis i: st holds intersect,
\* minRatio and normal on entry, the result holds them on exit
intersectsAxis_swapped(i, d0, d1, radius, st) ==
    LET raw0 == dotProduct(tAxis[i], d0)
        raw1 == dotProduct(tAxis[i], d1)
        forward == RGt(RSub(raw1, raw0), RInt(0))
        dist0 == IF forward THEN RAdd(raw0, radius) ELSE RSub(raw0, radius)
        dist1 == IF forward THEN RAdd(raw1, radius) ELSE RSub(raw1, radius)
        s1 == intersectSlab(dist0, dist1, dimension[i], tAxis[i],
                            st.minRatio, st.normal)
        s2 == intersectSlab(dist0, dist1, RNeg(dimension[i]), revert(tAxis[i]),
                            s1.minRatio, s1.normal)
    IN  [intersect |-> st.intersect \/ s1.hit \/ s2.hit,
         minRatio |-> s2.minRatio, normal |-> s2.normal]
intersectsAxis(i, d0, d1, radius, st) ==
    LET raw0 == dotProduct(tAxis[i], d0)
        raw1 == dotProduct(tAxis[i], d1)
        forward == RGt(RSub(raw1, raw0), RInt(0))
        dist0 == IF forward THEN RAdd(raw0, radius) ELSE RSub(raw0, radius)
        dist1 == IF forward THEN RAdd(raw1, radius) ELSE RSub(raw1, radius)
        s1 == intersectSlab(dist0, dist1, dimension[i], revert(tAxis[i]),
                            st.minRatio, st.normal)
        s2 == intersectSlab(dist0, dist1, RNeg(dimension[i]), tAxis[i],
                            s1.minRatio, s1.normal)
    IN  [intersect |-> st.intersect \/ s1.hit \/ s2.hit,
         minRatio |-> s2.minRatio, normal |-> s2.normal]

\* the loop of Box::intersects from axis i on
RECURSIVE intersectsFrom(_, _, _, _, _)
intersectsFrom(i, d0, d1, radius, st) ==
    IF i > 3 THEN st
    ELSE intersectsFrom(i + 1, d0, d1, radius, intersectsAxis(i, d0, d1, radius, st))

\* Box::intersects(v0,v1,radius,normal): the returned flag and the value left
\* in normal, which keeps the caller's value when no plane is crossed
BoxIntersects(v0, v1, radius, normal) ==
    LET st == intersectsFrom(1, VSub(v0, tPosition), VSub(v1, tPosition), radius,
                             [intersect |-> FALSE, minRatio |-> RInt(MAX_FLOAT),
                              normal |-> normal])
    IN  [intersect |-> st.intersect, normal |-> st.normal]

\* Box::intersects / Point::intersects
intersects(v0, v1, radius, normal) ==
    IF zoneKind = "Box" THEN BoxIntersects(v0, v1, radius, normal)
    ELSE [intersect |-> FALSE, normal |-> normal]

\* a call of contains(v1, radius) for the sphere
checkContains ==
    /\ zoneOp' = ZoneOp("contains", probe.v1, NoVec, contains(probe.v1, probe.radius),
                        probe.radius, NoVec)
    /\ UNCHANGED <<zoneKind, position, tPosition, world, dimension, axis, tAxis>>
    /\ UNCHANGED nonZoneVars

\* a call of intersects(v0, v1, radius, normal) for the sphere, with normal
\* holding the null vector on entry
checkIntersects ==
    /\ LET r == intersects(probe.v0, probe.v1, probe.radius, NoVec)
       IN  zoneOp' = ZoneOp("intersects", probe.v0, probe.v1, r.intersect,
                            probe.radius, r.normal)
    /\ UNCHANGED <<zoneKind, position, tPosition, world, dimension, axis, tAxis>>
    /\ UNCHANGED nonZoneVars

NextZoneTest ==
    \/ \E w \in Worlds : updateTransform(w)
    \/ checkContains
    \/ checkIntersects

-----------------------------------------------------------------------------
(* Obstacle *)

\* the offset 0.001f subtracted from dist in Obstacle::modify
Epsilon == R(1, 1000)

\* <<bouncingRatio, friction>> pairs
Ratios == { <<RInt(1), RInt(1)>>, <<R(1, 2), R(1, 2)>>, <<RInt(1), R(1, 2)>> }
\* <<offset of the old position from the zone, velocity>> of a particle
ParticleStarts == { <<Vec(3, 0, 0), Vec(-2, 1, 0)>>, <<Vec(0, -2, 0), Vec(1, 2, 0)>>,
                    <<Vec(0, 0, 0), Vec(0, 0, 1)>> }

Particle(pos, old, vel) == [position |-> pos, oldPosition |-> old, velocity |-> vel]

\* The body of the loop of Obstacle::modify for a particle the zone check
\* fires for; u is the unit vector normalizeOrRandomize may draw.
modifyParticle_noRevert(p, u) ==
    LET normal0 == ZoneComputeNormal(p.oldPosition, u)
        dist == dotProduct(p.velocity, normal0)
        normal1 == VScale(normal0, RSub(dist, Epsilon))
        tangent == VScale(VSub(p.velocity, normal1), friction)
        normal2 == VScale(normal1, bouncingRatio)
        normal3 == IF RGt(dist, RInt(0)) THEN revert(normal2) ELSE normal2
    IN  [position |-> p.position, oldPosition |-> p.oldPosition,
         velocity |-> VSub(tangent, normal3)]
modifyParticle(p, u) ==
    LET pos == p.oldPosition
        normal0 == ZoneComputeNormal(pos, u)
        dist == dotProduct(p.velocity, normal0)
        normal1 == VScale(normal0, RSub(dist, Epsilon))       \* normal *= dist - 0.001f
        tangent == VScale(VSub(p.velocity, normal1), friction) \* velocity -= normal; velocity *= friction
        normal2 == VScale(normal1, bouncingRatio)             \* normal *= bouncingRatio
        normal3 == IF RGt(dist, RInt(0)) THEN revert(normal2) ELSE normal2
    IN  [position |-> pos, oldPosition |-> p.oldPosition,
         velocity |-> VSub(tangent, normal3)]

NoPass == [done |-> FALSE, fires |-> [i \in 1..NbParticles |-> FALSE],
           before |-> <<>>, normals |-> <<>>]

\* Obstacle::Obstacle(zone,bouncingRatio,friction,zoneTest) and a group whose
\* particles have been moved by one step
InitObstacle ==
    /\ \E bf \in Ratios : bouncingRatio = bf[1] /\ friction = bf[2]
    /\ particles \in [1..NbParticles ->
            {Particle(VAdd(VAdd(tPosition, s[1]), s[2]), VAdd(tPosition, s[1]), s[2]) :
                s \in ParticleStarts}]
    /\ passes = 0
    /\ obsOp = NoPass

\* Obstacle::modify(group,dataSet,deltaTime): one pass over the group.
\* fires[i] is the outcome of checkZone for particle i.
modify(fires, u) ==
    /\ passes < MaxPasses
    /\ passes' = passes + 1
    /\ particles' = [i \in 1..NbParticles |->
                        IF fires[i] THEN modifyParticle(particles[i], u) ELSE particles[i]]
    /\ obsOp' = [done |-> TRUE, fires |-> fires, before |-> particles,
                 normals |-> [i \in 1..NbParticles |->
                                ZoneComputeNormal(particles[i].oldPosition, u)]]
    /\ UNCHANGED <<bouncingRatio, friction>>
    /\ UNCHANGED nonObstacleVars

NextObstacle ==
    \E fires \in [1..NbParticles -> BOOLEAN], u \in RandomUnits : modify(fires, u)

ObstacleZones ==
    \/ \E pos \in Positions : ZoneCtor("Point", pos, NullVec, NullVec, NullVec)
    \/ ZoneCtor("Box", Vec(0, 0, 0), Vec(2, 1, 1), Vec(0, 0, 1), Vec(0, 1, 0))
    \/ ZoneCtor("Box", Vec(0, 0, 0), Vec(2, 0, 1), Vec(1, 0, 0), Vec(0, 0, 1))

-----------------------------------------------------------------------------
(* System: step modes *)

\* the arguments of useConstantStep, useAdaptiveStep (<<minStep, maxStep>>)
\* and setClampStep
ConstantSteps == {2, 3}
AdaptiveSteps == { <<2, 3>>, <<1, 2>>, <<3, 2>> }
ClampSteps == {1, 3}
Deltas == 1..MaxDelta

SysOp(o, m, d, e, st) == [op |-> o, mode |-> m, delta |-> d, used |-> e, steps |-> st]

\* System::System(bool): deltaStep(0.0f).  The static members are defined
\* outside the header; REAL is the documented default mode, and each step
\* size is written by its use...Step call before the mode reads it.
InitSystem ==
    /\ stepMode = "REAL"
    /\ constantStep = 1
    /\ minStep = 1
    /\ maxStep = 1
    /\ clampStepEnabled = FALSE
    /\ clampStep = 1
    /\ deltaStep = 0
    /\ reqStep = constantStep
    /\ reqMin = minStep
    /\ reqMax = maxStep
    /\ base = 0
    /\ totalPassed = 0
    /\ totalUsed = 0
    /\ nbSteps = 0
    /\ sysOp = SysOp("System", "REAL", 0, 0, <<>>)

\* a step-mode change starts a new series of updates
NewSeries ==
    /\ base' = deltaStep
    /\ totalPassed' = 0
    /\ totalUsed' = 0
    /\ nbSteps' = 0

useConstantStep_keepsStep(step) ==
    /\ stepMode' = "CONSTANT"
    /\ constantStep' = constantStep
    /\ reqStep' = step
    /\ NewSeries
    /\ sysOp' = SysOp("useConstantStep", "CONSTANT", 0, 0, <<>>)
    /\ UNCHANGED <<minStep, maxStep, clampStepEnabled, clampStep, deltaStep, reqMin, reqMax>>
    /\ UNCHANGED nonSystemVars
useConstantStep(step) ==
    /\ stepMode' = "CONSTANT"
    /\ constantStep' = step
    /\ reqStep' = step
    /\ NewSeries
    /\ sysOp' = SysOp("useConstantStep", "CONSTANT", 0, 0, <<>>)
    /\ UNCHANGED <<minStep, maxStep, clampStepEnabled, clampStep, deltaStep, reqMin, reqMax>>
    /\ UNCHANGED nonSystemVars

useAdaptiveStep_swapped(min, max) ==
    /\ stepMode' = "ADAPTIVE"
    /\ minStep' = max
    /\ maxStep' = min
    /\ reqMin' = min
    /\ reqMax' = max
    /\ NewSeries
    /\ sysOp' = SysOp("useAdaptiveStep", "ADAPTIVE", 0, 0, <<>>)
    /\ UNCHANGED <<constantStep, clampStepEnabled, clampStep, deltaStep, reqStep>>
    /\ UNCHANGED nonSystemVars
useAdaptiveStep(min, max) ==
    /\ stepMode' = "ADAPTIVE"
    /\ minStep' = min
    /\ maxStep' = max
    /\ reqMin' = min
    /\ reqMax' = max
    /\ NewSeries
    /\ sysOp' = SysOp("useAdaptiveStep", "ADAPTIVE", 0, 0, <<>>)
    /\ UNCHANGED <<constantStep, clampStepEnabled, clampStep, deltaStep, reqStep>>
    /\ UNCHANGED nonSystemVars

useRealStep ==
    /\ stepMode' = "REAL"
    /\ NewSeries
    /\ sysOp' = SysOp("useRealStep", "REAL", 0, 0, <<>>)
    /\ UNCHANGED <<constantStep, minStep, maxStep, clampStepEnabled, clampStep, deltaStep,
                   reqStep, reqMin, reqMax>>
    /\ UNCHANGED nonSystemVars

setClampStep(enable, clamp) ==
    /\ clampStepEnabled' = enable
    /\ clampStep' = clamp
    /\ sysOp' = SysOp("setClampStep", stepMode, 0, 0, <<>>)
    /\ UNCHANGED <<stepMode, constantStep, minStep, maxStep, deltaStep, reqStep, reqMin,
                   reqMax, base, totalPassed, totalUsed, nbSteps>>
    /\ UNCHANGED nonSystemVars

\* the delta the step-mode logic works on: capped at clampStep when clamping
clamped(delta) == IF clampStepEnabled /\ delta > clampStep THEN clampStep ELSE delta

\* the loop of fixed-size sub-steps: one sub-step of size step while the
\* accumulated time is at least step; yields the sub-steps and the time left
RECURSIVE subSteps(_, _, _)
subSteps(acc, step, done) ==
    IF acc >= step THEN subSteps(acc - step, step, Append(done, step))
    ELSE [steps |-> done, left |-> acc]

\* the sub-steps one update call performs and the deltaStep it leaves
updateResult(delta) ==
    LET d == clamped(delta)
    IN  CASE stepMode = "REAL" -> [steps |-> <<d>>, left |-> deltaStep]
          [] stepMode = "CONSTANT" -> subSteps(d + deltaStep, constantStep, <<>>)
          [] stepMode = "ADAPTIVE" ->
                IF d > maxStep THEN subSteps(d + deltaStep, maxStep, <<>>)
                ELSE IF d < minStep THEN subSteps(d + deltaStep, minStep, <<>>)
                ELSE [steps |-> <<d>>, left |-> deltaStep]

\* System::updateParticles(deltaTime)
update(delta) ==
    /\ totalPassed + delta <= MaxTotal
    /\ LET r == updateResult(delta)
       IN  /\ deltaStep' = r.left
           /\ nbSteps' = nbSteps + Len(r.steps)
           /\ sysOp' = SysOp("update", stepMode, delta, clamped(delta), r.steps)
    /\ totalPassed' = totalPassed + delta
    /\ totalUsed' = totalUsed + clamped(delta)
    /\ UNCHANGED <<stepMode, constantStep, minStep, maxStep, clampStepEnabled, clampStep,
                   reqStep, reqMin, reqMax, base>>
    /\ UNCHANGED nonSystemVars

NextSystem ==
    \/ \E step \in ConstantSteps : useConstantStep(step)
    \/ \E mm \in AdaptiveSteps : useAdaptiveStep(mm[1], mm[2])
    \/ useRealStep
    \/ \E enable \in BOOLEAN, clamp \in ClampSteps : setClampStep(enable, clamp)
    \/ \E delta \in Deltas : update(delta)

-----------------------------------------------------------------------------
(* Emitter *)

ZoneIds == {"NULL", "Z1", "Z2"}
SPK_DEFAULT_ZONE == "DEFAULT"

Forces == 0..MaxForce
Supplies == -1..MaxSupply

NoEmit == [done |-> FALSE, zone |-> "NULL", full |-> FALSE, radius |-> 0]

\* The assertion of Emitter::setTank: `flow` is the member, `tank` the argument.
setTankAssert_argShadow(t) == flow >= 0 \/ tank >= 0
setTankAssert(t) == flow >= 0 \/ t >= 0

\* The assertion of Emitter::setFlow: `flow` is the argument, `tank` the member.
setFlowAssert(f) == f >= 0 \/ tank >= 0

\* Emitter::setForce as a function of the stored pair and the arguments: the
\* test reads the members forceMin/forceMax, not the arguments min/max.
setForceResult(curMin, curMax, min, max) ==
    IF curMin <= curMax THEN <<min, max>> ELSE <<max, min>>

\* Emitter::Emitter(zone,full,tank,flow,forceMin,forceMax).  The initialiser
\* list sets active, zone, flow(1.0f) and fraction; the body calls setTank,
\* setFlow and setForce.  `full`, `forceMin` and `forceMax` are not
\* initialised: `full` keeps an indeterminate value (uFull), and setForce
\* tests an indeterminate pair (uMin, uMax).
EmitterCtor(z, fl, t, f, fmin, fmax, uFull, uMin, uMax) ==
    LET okTank == 1 >= 0 \/ t >= 0          \* setTank(tank) with flow = 1.0f
        okFlow == f >= 0 \/ t >= 0          \* setFlow(flow) with tank = t
        fr == setForceResult(uMin, uMax, fmin, fmax)
    IN  /\ zone = (IF z = "NULL" THEN SPK_DEFAULT_ZONE ELSE z)
        /\ full = uFull
        /\ tank = t
        /\ flow = (IF okTank /\ okFlow THEN f ELSE 1)
        /\ aborted = ~(okTank /\ okFlow)
        /\ forceMin = (IF okTank /\ okFlow THEN fr[1] ELSE uMin)
        /\ forceMax = (IF okTank /\ okFlow THEN fr[2] ELSE uMax)
        /\ cfgFull = fl
        /\ lastCall = [op |-> "ctor", a |-> t, b |-> f, preFlow |-> 1, preTank |-> t]
        /\ emitted = NoEmit

InitEmitter ==
    \E z \in ZoneIds, fl \in BOOLEAN, t \in Supplies, f \in Supplies,
       fmin \in Forces, fmax \in Forces,
       uFull \in BOOLEAN, uMin \in Forces, uMax \in Forces :
        EmitterCtor(z, fl, t, f, fmin, fmax, uFull, uMin, uMax)

\* Emitter::Emitter(const Emitter&): copies active, flow, tank, forceMin,
\* forceMax and the zone; `full` is not copied and is indeterminate.
CopyEmitter ==
    /\ ~aborted
    /\ \E uFull \in BOOLEAN : full' = uFull
    /\ lastCall' = [op |-> "copy", a |-> 0, b |-> 0, preFlow |-> flow, preTank |-> tank]
    /\ emitted' = NoEmit
    /\ UNCHANGED <<zone, tank, flow, forceMin, forceMax, aborted, cfgFull>>
    /\ UNCHANGED nonEmitterVars

setTank(t) ==
    /\ ~aborted
    /\ IF setTankAssert(t)
         THEN tank' = t /\ aborted' = FALSE
         ELSE tank' = tank /\ aborted' = TRUE
    /\ lastCall' = [op |-> "setTank", a |-> t, b |-> 0, preFlow |-> flow, preTank |-> tank]
    /\ UNCHANGED <<zone, full, flow, forceMin, forceMax, cfgFull, emitted>>
    /\ UNCHANGED nonEmitterVars

setFlow(f) ==
    /\ ~aborted
    /\ IF setFlowAssert(f)
         THEN flow' = f /\ aborted' = FALSE
         ELSE flow' = flow /\ aborted' = TRUE
    /\ lastCall' = [op |-> "setFlow", a |-> f, b |-> 0, preFlow |-> flow, preTank |-> tank]
    /\ UNCHANGED <<zone, full, tank, forceMin, forceMax, cfgFull, emitted>>
    /\ UNCHANGED nonEmitterVars

setForce(min, max) ==
    /\ ~aborted
    /\ forceMin' = setForceResult(forceMin, forceMax, min, max)[1]
    /\ forceMax' = setForceResult(forceMin, forceMax, min, max)[2]
    /\ lastCall' = [op |-> "setForce", a |-> min, b |-> max, preFlow |-> flow, preTank |-> tank]
    /\ UNCHANGED <<zone, full, tank, flow, aborted, cfgFull, emitted>>
    /\ UNCHANGED nonEmitterVars

setZone(z, fl) ==
    /\ ~aborted
    /\ zone' = (IF z = "NULL" THEN SPK_DEFAULT_ZONE ELSE z)
    /\ full' = fl
    /\ cfgFull' = fl
    /\ lastCall' = [op |-> "setZone", a |-> 0, b |-> 0, preFlow |-> flow, preTank |-> tank]
    /\ emitted' = NoEmit
    /\ UNCHANGED <<tank, flow, forceMin, forceMax, aborted>>
    /\ UNCHANGED nonEmitterVars

\* Emitter::emit: zone->generatePosition(particle.position(),full), the
\* radius being the declared default 0.0f.
emit ==
    /\ ~aborted
    /\ emitted' = [done |-> TRUE, zone |-> zone, full |-> full, radius |-> 0]
    /\ lastCall' = [op |-> "emit", a |-> 0, b |-> 0, preFlow |-> flow, preTank |-> tank]
    /\ UNCHANGED <<zone, full, tank, flow, forceMin, forceMax, aborted, cfgFull>>
    /\ UNCHANGED nonEmitterVars

NextEmitter ==
    \/ CopyEmitter
    \/ \E t \in Supplies : setTank(t)
    \/ \E f \in Supplies : setFlow(f)
    \/ \E min \in Forces, max \in Forces : setForce(min, max)
    \/ \E z \in ZoneIds, fl \in BOOLEAN : setZone(z, fl)
    \/ emit

\* an emitter left alone while another object is exercised
EmitterIdle == EmitterCtor("Z1", TRUE, 0, 1, 0, 1, TRUE, 0, 0)

\* a zone left alone while another object is exercised
ZoneIdle == ZoneCtor("Box", Vec(0, 0, 0), Vec(1, 1, 1), Vec(0, 0, 1), Vec(0, 1, 0))

\* an obstacle and its group left alone
ObstacleIdle ==
    /\ bouncingRatio = RInt(1)
    /\ friction = RInt(1)
    /\ particles = [i \in 1..NbParticles |-> Particle(NullVec, NullVec, NullVec)]
    /\ passes = 0
    /\ obsOp = NoPass

\* a system left alone
SystemIdle == InitSystem

\* the objects of a run, each constructed as given
Constructed(aZone, anEmitter, anObstacle, aSystem) ==
    aZone /\ ProbeIdle /\ anEmitter /\ anObstacle /\ aSystem

SpecEmitter ==
    Constructed(ZoneIdle, InitEmitter, ObstacleIdle, SystemIdle) /\ [][NextEmitter]_vars

SpecZone ==
    Constructed(InitZone, EmitterIdle, ObstacleIdle, SystemIdle) /\ [][NextZone]_vars

\* a zone and the sphere it is tested with, the other objects left alone
Tested(aZone, aProbe) ==
    aZone /\ aProbe /\ EmitterIdle /\ ObstacleIdle /\ SystemIdle

SpecZoneTest == Tested(InitZone, InitProbe) /\ [][NextZoneTest]_vars

SpecObstacle ==
    Constructed(ObstacleZones, EmitterIdle, InitObstacle, SystemIdle) /\ [][NextObstacle]_vars

SpecSystem ==
    Constructed(ZoneIdle, EmitterIdle, ObstacleIdle, InitSystem) /\ [][NextSystem]_vars

-----------------------------------------------------------------------------
(* Claims about the Emitter *)

MinOf(a, b) == IF a <= b THEN a ELSE b
MaxOf(a, b) == IF a <= b THEN b ELSE a

\* C1: after every setForce(min,max) the emitter stores forceMin = the smaller
\* and forceMax = the larger argument, so forceMin <= forceMax.
C1_SetForceOrders ==
    lastCall.op = "setForce" =>
        /\ forceMin = MinOf(lastCall.a, lastCall.b)
        /\ forceMax = MaxOf(lastCall.a, lastCall.b)
        /\ forceMin <= forceMax

\* C2: unless an assertion has tripped, flow and tank are never both negative,
\* and every setTank/setFlow/constructor call whose assignment would make both
\* negative trips the assertion.
C2_NeverBothNegative ==
    /\ ~aborted => ~(flow < 0 /\ tank < 0)
    /\ (lastCall.op = "setTank" /\ lastCall.a < 0 /\ lastCall.preFlow < 0) => aborted
    /\ (lastCall.op = "setFlow" /\ lastCall.a < 0 /\ lastCall.preTank < 0) => aborted
    /\ (lastCall.op = "ctor" /\ lastCall.a < 0 /\ lastCall.b < 0) => aborted

C2_Witness ==
    /\ lastCall.op = "setTank" /\ lastCall.a < 0 /\ lastCall.preFlow < 0 /\ aborted

\* C3: emit calls zone.generatePosition with the configured full flag (from
\* the constructor, the last setZone, or carried by the copy) and radius 0.
C3_EmitUsesConfiguredFull ==
    emitted.done => (emitted.full = cfgFull /\ emitted.radius = 0 /\ emitted.zone = zone)

-----------------------------------------------------------------------------
(* Claims about the Obstacle *)

\* the component of v along the unit vector n, and the rest of v
NormalPart(v, n) == dotProduct(v, n)
TangentPart(v, n) == VSub(v, VScale(n, dotProduct(v, n)))

\* C8: with bouncingRatio = 1 and friction = 1, a triggered particle whose
\* velocity has component d along the (unit) zone normal leaves modify with
\* normal component exactly -d and its tangential component unchanged.
C8_ElasticBounce ==
    (obsOp.done /\ passes = 1 /\ bouncingRatio = RInt(1) /\ friction = RInt(1)) =>
        \A i \in 1..NbParticles :
            (obsOp.fires[i] /\ getSqrNorm(obsOp.normals[i]) = RInt(1)) =>
                /\ NormalPart(particles[i].velocity, obsOp.normals[i])
                      = RNeg(NormalPart(obsOp.before[i].velocity, obsOp.normals[i]))
                /\ TangentPart(particles[i].velocity, obsOp.normals[i])
                      = TangentPart(obsOp.before[i].velocity, obsOp.normals[i])

-----------------------------------------------------------------------------
(* Claims about the System *)

AllEqual(seq, x) == \A k \in 1..Len(seq) : seq[k] = x

\* the updates so far all ran in CONSTANT mode, on a system with no time left
\* over from another mode
ConstantSeries == stepMode = "CONSTANT" /\ base = 0

\* C9 as stated: in CONSTANT mode every sub-step has size constantStep, the
\* number of sub-steps so far is floor(total delta passed / constantStep), and
\* the remainder (< constantStep) is carried to the next call.
C9_StepsCountPassedDelta ==
    ConstantSeries =>
        /\ sysOp.op = "update" => AllEqual(sysOp.steps, reqStep)
        /\ nbSteps = totalPassed \div reqStep
        /\ deltaStep = totalPassed % reqStep
        /\ deltaStep < reqStep

\* C9 amended: the same, with each delta counted after clamping (the delta
\* passed, capped at clampStep while clamping is enabled).
C9_StepsCountClampedDelta ==
    ConstantSeries =>
        /\ sysOp.op = "update" => AllEqual(sysOp.steps, reqStep)
        /\ nbSteps = totalUsed \div reqStep
        /\ deltaStep = totalUsed % reqStep
        /\ deltaStep < reqStep

\* update(2.5 * constantStep) on a fresh system: 2 sub-steps, 0.5 * constantStep carried
C9_Witness ==
    /\ ConstantSeries /\ reqStep = 2
    /\ sysOp.op = "update" /\ sysOp.delta = 5 /\ totalPassed = 5
    /\ sysOp.steps = <<2, 2>> /\ deltaStep = 1

\* the sub-steps ADAPTIVE mode is to perform for a delta d
AdaptiveSteps_ok(d, steps) ==
    /\ (reqMin <= d /\ d <= reqMax) => steps = <<d>>
    /\ d > reqMax => AllEqual(steps, reqMax)
    /\ d < reqMin => AllEqual(steps, reqMin)

\* C10 as stated: in ADAPTIVE mode with minStep <= maxStep, a delta within
\* [minStep, maxStep] gives exactly one sub-step of size delta, a delta above
\* maxStep only sub-steps of size maxStep, one below minStep only sub-steps of
\* size minStep.
C10_AdaptivePassedDelta ==
    (sysOp.op = "update" /\ sysOp.mode = "ADAPTIVE" /\ reqMin <= reqMax) =>
        AdaptiveSteps_ok(sysOp.delta, sysOp.steps)

\* C10 amended: the same, for the delta after clamping.
C10_AdaptiveClampedDelta ==
    (sysOp.op = "update" /\ sysOp.mode = "ADAPTIVE" /\ reqMin <= reqMax) =>
        AdaptiveSteps_ok(sysOp.used, sysOp.steps)

C10_Witness ==
    /\ sysOp.op = "update" /\ sysOp.mode = "ADAPTIVE" /\ reqMin <= reqMax
    /\ sysOp.used > reqMax /\ Len(sysOp.steps) >= 2

-----------------------------------------------------------------------------
(* Claims about the zones *)

\* C4: after setDimension(d), construction with d or import with d, the stored
\* dimension is the component-wise absolute value of d, never negative.
C4_DimensionIsAbs ==
    (zoneOp.op \in {"setDimension", "Box"} \/ (zoneOp.op = "innerImport" /\ zoneOp.flag)) =>
        \A i \in 1..3 :
            /\ dimension[i] = (IF zoneOp.arg1[i][1] < 0 THEN RNeg(zoneOp.arg1[i]) ELSE zoneOp.arg1[i])
            /\ dimension[i][1] >= 0

C4_Witness ==
    /\ zoneOp.op = "setDimension"
    /\ zoneOp.arg1 = Vec(2, 1, -1)
    /\ dimension = Vec(2, 1, 1)

\* front and up are parallel: one is a non-zero multiple of the other
Parallel(front, up) ==
    ~isNull(front) /\ ~isNull(up) /\ isNull(crossProduct(front, up))

CanonicalAxes ==
    LET a0 == crossProduct(Vec(0, 0, 1), Vec(0, 1, 0))
    IN  <<a0, crossProduct(a0, Vec(0, 0, 1)), Vec(0, 0, 1)>>

\* C5: setAxis(front, up) with parallel front/up, or with a null vector, stores
\* the canonical axes built from up=(0,1,0), front=(0,0,1), and no null axis.
C5_DegenerateAxisFallsBack ==
    (zoneOp.op = "setAxis"
       /\ (Parallel(zoneOp.arg1, zoneOp.arg2) \/ isNull(zoneOp.arg1) \/ isNull(zoneOp.arg2))) =>
        /\ axis = CanonicalAxes
        /\ \A i \in 1..3 : ~isNull(axis[i])

\* C6: every point a Box produces by generatePosition(full=true, radius=0)
\* satisfies contains(point, 0).
C6_GeneratedPointContained ==
    (zoneKind = "Box" /\ zoneOp.op = "generatePosition" /\ zoneOp.flag /\ zoneOp.radius = RInt(0)) =>
        contains(zoneOp.result, RInt(0))

C6_Witness ==
    /\ zoneKind = "Box" /\ zoneOp.op = "generatePosition" /\ zoneOp.flag
    /\ zoneOp.radius = RInt(0)
    /\ zoneOp.result # tPosition
    /\ world # Identity
    /\ contains(zoneOp.result, RInt(0))

\* C7: computeNormal(v) of a Box or a Point has length exactly 1.
C7_NormalIsUnit ==
    zoneOp.op = "computeNormal" => getSqrNorm(zoneOp.result) = RInt(1)

\* three vectors, each of length 1 and pairwise orthogonal
Orthonormal(ax) ==
    /\ \A i \in 1..3 : getSqrNorm(ax[i]) = RInt(1)
    /\ \A i \in 1..3 : \A j \in 1..3 : i # j => dotProduct(ax[i], ax[j]) = RInt(0)

\* C11: the local axes and the transformed axes of a Box are each unit-length
\* and pairwise orthogonal after setAxis(front, up) for any pair of vectors
\* (called by the constructor and by innerImport too) and after every later
\* innerUpdateTransform.
C11_AxesOrthonormal ==
    (zoneKind = "Box" /\ zoneOp.op \in {"Box", "setAxis", "innerImport", "updateTransform"}) =>
        Orthonormal(axis) /\ Orthonormal(tAxis)

\* the coordinate of the point v along the transformed axis i of the box
LocalCoord(v, i) == dotProduct(tAxis[i], VSub(v, tPosition))

\* v lies beyond one face of axis i and within the slabs of the other two axes
BeyondFaceOnly(v, i) ==
    /\ RGt(RAbs(LocalCoord(v, i)), dimension[i])
    /\ \A j \in 1..3 : j # i => RLe(RAbs(LocalCoord(v, j)), dimension[j])

\* C12: computeNormal(v) is the outward normal of the boundary feature nearest
\* to v: for a Box, +tAxis[i] for a point beyond the +dimension face of axis i
\* and -tAxis[i] for one beyond the -dimension face; for a Point zone, the
\* direction from the zone position towards v.
C12_NormalPointsOutward ==
    zoneOp.op = "computeNormal" =>
        /\ (zoneKind = "Box" /\ Orthonormal(tAxis)) =>
              \A i \in 1..3 :
                  (BeyondFaceOnly(zoneOp.arg1, i) /\ RGt(dimension[i], RInt(0))) =>
                      zoneOp.result = (IF RGt(LocalCoord(zoneOp.arg1, i), RInt(0))
                                       THEN tAxis[i] ELSE revert(tAxis[i]))
        /\ (zoneKind = "Point" /\ zoneOp.arg1 # tPosition) =>
              zoneOp.result = normalize(VSub(zoneOp.arg1, tPosition))

-----------------------------------------------------------------------------
(* Frame of Obstacle::modify *)

\* C14: a pass of Obstacle::modify sets the position of every particle the zone
\* check fires for to that particle's oldPosition, leaves position, oldPosition
\* and velocity of every other particle unchanged, and neither adds nor removes
\* a particle.
C14_ModifyFrame ==
    obsOp.done =>
        /\ DOMAIN particles = DOMAIN obsOp.before
        /\ \A i \in DOMAIN particles :
              IF obsOp.fires[i]
              THEN /\ particles[i].position = obsOp.before[i].oldPosition
                   /\ particles[i].oldPosition = obsOp.before[i].oldPosition
              ELSE particles[i] = obsOp.before[i]

\* one pass that moves a particle back and leaves another one alone
C14_Witness ==
    /\ obsOp.done
    /\ \E i \in DOMAIN particles, j \in DOMAIN particles :
          /\ obsOp.fires[i] /\ ~obsOp.fires[j]
          /\ obsOp.before[i].position # obsOp.before[i].oldPosition
          /\ particles[i].position = obsOp.before[i].oldPosition
          /\ particles[j].position # particles[j].oldPosition

-----------------------------------------------------------------------------
(* Claims about the zone tests *)

\* C13: Box::contains(point, radius) returns true only when the sphere lies
\* fully inside the box: for every axis i the local coordinate c_i of the point
\* satisfies |c_i| + radius <= dimension_i.
C13_ContainedSphereIsInside ==
    (zoneKind = "Box" /\ zoneOp.op = "contains" /\ zoneOp.flag) =>
        \A i \in 1..3 :
            RLe(RAdd(RAbs(LocalCoord(zoneOp.arg1, i)), zoneOp.radius), dimension[i])

\* The six slab planes in the iteration order of Box::intersects: plane k lies
\* on axis (k+1) \div 2, the +dimension plane (odd k) before the -dimension one.
PlaneAxis(k) == (k + 1) \div 2
PlaneSlab(k) == IF k % 2 = 1 THEN dimension[PlaneAxis(k)] ELSE RNeg(dimension[PlaneAxis(k)])
PlaneNormal(k) == IF k % 2 = 1 THEN revert(tAxis[PlaneAxis(k)]) ELSE tAxis[PlaneAxis(k)]

\* the coordinate of the end point v of the tested segment along axis i, moved
\* by the radius in the direction of travel
ShiftedCoord(v, i) ==
    IF RGt(RSub(LocalCoord(zoneOp.arg2, i), LocalCoord(zoneOp.arg1, i)), RInt(0))
    THEN RAdd(LocalCoord(v, i), zoneOp.radius)
    ELSE RSub(LocalCoord(v, i), zoneOp.radius)

\* signed distance of the shifted end point v to plane k
PlaneDist(k, v) == RSub(PlaneSlab(k), ShiftedCoord(v, PlaneAxis(k)))

\* the shifted segment crosses plane k, and the ratio at which it does
Crossed(k) ==
    RGt(PlaneDist(k, zoneOp.arg1), RInt(0)) # RGt(PlaneDist(k, zoneOp.arg2), RInt(0))
CrossingRatio(k) ==
    RDiv(PlaneDist(k, zoneOp.arg1),
         RSub(PlaneDist(k, zoneOp.arg1), PlaneDist(k, zoneOp.arg2)))
CrossedPlanes == {k \in 1..6 : Crossed(k)}

\* the crossed plane of minimum ratio, the first in iteration order among equals
FirstCrossedPlane ==
    CHOOSE k \in CrossedPlanes :
        \A j \in CrossedPlanes :
            \/ RLt(CrossingRatio(k), CrossingRatio(j))
            \/ (CrossingRatio(k) = CrossingRatio(j) /\ k <= j)

\* C15: Box::intersects returns true exactly when the radius-shifted segment
\* crosses at least one slab plane, and then reports the normal of the crossed
\* plane of minimum ratio; among planes crossed at the same ratio the first in
\* iteration order wins (x before y before z, +dimension before -dimension).
C15_FirstCrossedPlaneWins ==
    (zoneKind = "Box" /\ zoneOp.op = "intersects") =>
        /\ zoneOp.flag = (CrossedPlanes # {})
        /\ zoneOp.flag => zoneOp.result = PlaneNormal(FirstCrossedPlane)

\* a segment crossing two planes with different normals at the same ratio
C15_Witness ==
    /\ zoneKind = "Box" /\ zoneOp.op = "intersects" /\ zoneOp.flag
    /\ \E k \in CrossedPlanes :
          /\ k # FirstCrossedPlane
          /\ CrossingRatio(k) = CrossingRatio(FirstCrossedPlane)
          /\ PlaneNormal(k) # PlaneNormal(FirstCrossedPlane)
    /\ zoneOp.result = PlaneNormal(FirstCrossedPlane)

StrictlyInside(v) == \A i \in 1..3 : RLt(RAbs(LocalCoord(v, i)), dimension[i])
StrictlyOutside(v) == \E i \in 1..3 : RGt(RAbs(LocalCoord(v, i)), dimension[i])

\* the axes whose slab the end point v1 lies outside of, and for such an axis
\* the fraction of the segment v0 -> v1 at which it passes the face
OutsideAxes(v1) == {i \in 1..3 : RGt(RAbs(LocalCoord(v1, i)), dimension[i])}
FaceCoord(v1, i) ==
    IF RGt(LocalCoord(v1, i), RInt(0)) THEN dimension[i] ELSE RNeg(dimension[i])
ExitFraction(v0, v1, i) ==
    RDiv(RSub(FaceCoord(v1, i), LocalCoord(v0, i)),
         RSub(LocalCoord(v1, i), LocalCoord(v0, i)))
\* the axes of the faces the segment leaves the box through
ExitAxes(v0, v1) ==
    {i \in OutsideAxes(v1) :
        \A j \in OutsideAxes(v1) : RLe(ExitFraction(v0, v1, i), ExitFraction(v0, v1, j))}
\* the normal of the face of axis i on the side of v1, pointing to the interior
InwardNormal(v1, i) ==
    IF RGt(LocalCoord(v1, i), RInt(0)) THEN revert(tAxis[i]) ELSE tAxis[i]

\* C16: for a Box with orthonormal axes and radius 0, intersects returns false
\* when both end points lie strictly inside the box; when v0 lies strictly
\* inside and v1 strictly outside it returns true and reports the normal of
\* the face the segment leaves the box through, pointing to the interior.
C16_LeavingSegmentHitsExitFace ==
    (zoneKind = "Box" /\ zoneOp.op = "intersects" /\ zoneOp.radius = RInt(0)
       /\ Orthonormal(tAxis) /\ StrictlyInside(zoneOp.arg1)) =>
        /\ StrictlyInside(zoneOp.arg2) => ~zoneOp.flag
        /\ StrictlyOutside(zoneOp.arg2) =>
              /\ zoneOp.flag
              /\ \E i \in ExitAxes(zoneOp.arg1, zoneOp.arg2) :
                    zoneOp.result = InwardNormal(zoneOp.arg2, i)

\* a segment leaving a rotated box through one face, v1 being outside of the
\* slabs of two axes
C16_Witness ==
    /\ zoneKind = "Box" /\ zoneOp.op = "intersects" /\ zoneOp.radius = RInt(0)
    /\ Orthonormal(tAxis) /\ world # Identity
    /\ StrictlyInside(zoneOp.arg1) /\ StrictlyOutside(zoneOp.arg2)
    /\ Cardinality(OutsideAxes(zoneOp.arg2)) >= 2
    /\ zoneOp.flag
    /\ \E i \in ExitAxes(zoneOp.arg1, zoneOp.arg2) :
          zoneOp.result = InwardNormal(zoneOp.arg2, i)

====
